---- MODULE Spec2Model ----
(***************************************************************************)
(* Model of the screenshot microservice of src/index.js: the Express       *)
(* handler POST /api/fly/take-screenshot, the background pipeline          *)
(* processScreenshotAsync and the compressor/publisher                     *)
(* processAndUploadImage.                                                  *)
(*                                                                         *)
(* Node runs the code on one event loop: the code between two awaits is    *)
(* atomic.  Each action below is the completion of one awaited operation   *)
(* of one request together with the synchronous code that follows it, up   *)
(* to and including the start of the next awaited operation.  pc[r] names  *)
(* the operation request r is awaiting; log[r] lists, in order, what the   *)
(* request has started or sent.                                            *)
(***************************************************************************)
EXTENDS Integers, Sequences, FiniteSets, TLC

\* ---------------------------------------------------------------- bounds
NumReqs == 2
MaxClock == 1

\* ------------------------------------------------------ program constants
CeilingKB == 30
BytesPerKB == 1024
NumSelectors == 6

\* -------------------------------------------------------------- universes
Reqs == 1..NumReqs
Ids == {"a", "b"}
NoId == "none"
Bodies == Ids \cup {NoId}
NoPath == <<>>
NoSize == 0
Sizes == {30720, 35840, 51200}
ProbeStatuses == {0, 200, 503}
NoObject == 0
NoUrl == <<>>
NoRecord == [url |-> NoUrl, by |-> 0]

VARIABLES
    pc, pid, responses, log, outcome, probeResult,
    browser, settleIdx, filepath, cleanupFailed,
    pass1Size, pass2Size, finalSize, publicUrl,
    now, files, storage, record,
    failedOp, uploadResult, settleTimedOut, predecessors

vars == <<pc, pid, responses, log, outcome, probeResult,
          browser, settleIdx, filepath, cleanupFailed,
          pass1Size, pass2Size, finalSize, publicUrl,
          now, files, storage, record,
          failedOp, uploadResult, settleTimedOut, predecessors>>

reqVars == <<pc, pid, responses, log, outcome, probeResult>>
idVars == <<pid, responses, probeResult>>
browserVars == <<browser, settleIdx>>
imageVars == <<pass1Size, pass2Size, finalSize, publicUrl>>
storeVars == <<storage, record>>
\* What the environment answered and when: the operation whose rejection
\* reached the catch block, the result of the upload, whether a
\* check of the running settle loop timed out, and the publishes for the
\* same project that were over when the request started its publish.
histVars == <<failedOp, uploadResult, settleTimedOut, predecessors>>

Range(s) == {s[i] : i \in DOMAIN s}

Init ==
    /\ pc = [r \in Reqs |-> "idle"]
    /\ pid = [r \in Reqs |-> NoId]
    /\ responses = [r \in Reqs |-> <<>>]
    /\ log = [r \in Reqs |-> <<>>]
    /\ outcome = [r \in Reqs |-> "none"]
    /\ probeResult = [r \in Reqs |-> <<>>]
    /\ browser = [r \in Reqs |-> "none"]
    /\ settleIdx = [r \in Reqs |-> 0]
    /\ filepath = [r \in Reqs |-> NoPath]
    /\ cleanupFailed = [r \in Reqs |-> FALSE]
    /\ pass1Size = [r \in Reqs |-> NoSize]
    /\ pass2Size = [r \in Reqs |-> NoSize]
    /\ finalSize = [r \in Reqs |-> NoSize]
    /\ publicUrl = [r \in Reqs |-> NoUrl]
    /\ now = 0
    /\ files = {}
    /\ storage = [i \in Ids |-> NoObject]
    /\ record = [i \in Ids |-> NoRecord]
    /\ failedOp = [r \in Reqs |-> "none"]
    /\ uploadResult = [r \in Reqs |-> "none"]
    /\ settleTimedOut = [r \in Reqs |-> FALSE]
    /\ predecessors = [r \in Reqs |-> {}]

\* Date.now(): the millisecond clock advances between event-loop turns.
Tick ==
    /\ now < MaxClock
    /\ now' = now + 1
    /\ UNCHANGED <<reqVars, browserVars, filepath, cleanupFailed, imageVars,
                   files, storeVars, histVars>>

\* ------------------------------------------------------------- helpers

\* The request starts its next awaited operation (or sends / attempts
\* something synchronously) and the log records it.
Advance(r, op) ==
    /\ pc' = [pc EXCEPT ![r] = op]
    /\ log' = [log EXCEPT ![r] = Append(@, op)]

\* Variant of NextOp: the stored object is removed after the upload.
NextOp_RemoveAfterUpload(op) ==
    CASE op = "probe" -> "launch"
      [] op = "launch" -> "newPage"
      [] op = "newPage" -> "setViewport"
      [] op = "setViewport" -> "goto"
      [] op = "goto" -> "settle"
      [] op = "settle" -> "quiet"
      [] op = "quiet" -> "screenshot"
      [] op = "screenshot" -> "close"
      [] op = "close" -> "pass1"
      [] op = "pass1" -> "pass2"
      [] op = "pass2" -> "upload"
      [] op = "upload" -> "remove"
      [] op = "remove" -> "update"
      [] OTHER -> "done"

\* Variant of NextOp: the browser is closed before the capture.
NextOp_CloseBeforeCapture(op) ==
    CASE op = "probe" -> "launch"
      [] op = "launch" -> "newPage"
      [] op = "newPage" -> "setViewport"
      [] op = "setViewport" -> "goto"
      [] op = "goto" -> "settle"
      [] op = "settle" -> "quiet"
      [] op = "quiet" -> "close"
      [] op = "close" -> "screenshot"
      [] op = "screenshot" -> "pass1"
      [] op = "pass1" -> "pass2"
      [] op = "pass2" -> "remove"
      [] op = "remove" -> "upload"
      [] op = "upload" -> "update"
      [] OTHER -> "done"

\* The order of the awaited operations of processScreenshotAsync and
\* processAndUploadImage, as written in the source.
NextOp(op) ==
    CASE op = "probe" -> "launch"
      [] op = "launch" -> "newPage"
      [] op = "newPage" -> "setViewport"
      [] op = "setViewport" -> "goto"
      [] op = "goto" -> "settle"
      [] op = "settle" -> "quiet"
      [] op = "quiet" -> "screenshot"
      [] op = "screenshot" -> "close"
      [] op = "close" -> "pass1"
      [] op = "pass1" -> "pass2"
      [] op = "pass2" -> "remove"
      [] op = "remove" -> "upload"
      [] op = "upload" -> "update"
      [] OTHER -> "done"

\* Variant of IsMissing: the handler does not validate the body.
IsMissing_Never(id) == FALSE

\* `!id`
IsMissing(id) == id = NoId

\* Variant of AcceptedSteps: the pipeline is started before the response.
AcceptedSteps_PipelineFirst == <<"probe", "respond200">>

\* res.json(...) followed by the call of processScreenshotAsync, which runs
\* synchronously up to its first await, the fetch of the probe.
AcceptedSteps == <<"respond200", "probe">>

\* Variant of ResponseOk: any response counts, only a rejected fetch fails.
ResponseOk_AnyStatus(status) == status > 0

\* Response.ok of fetch: a status in 200..299; status 0 stands for a
\* rejected fetch (network error, timeout).
ResponseOk(status) == status >= 200 /\ status <= 299

\* Variant of NeedsPass2: `>=` for `>`.
NeedsPass2_AtCeiling(bytes) == bytes >= CeilingKB * BytesPerKB

\* `compressedSize > 30`, compressedSize = buffer.length / 1024
NeedsPass2(bytes) == bytes > CeilingKB * BytesPerKB

\* Variant of AdoptPass2: Pass 2's output is never taken.
AdoptPass2_Never(bytes) == FALSE

\* Variant of AdoptPass2: Pass 2's output always replaces Pass 1's.
AdoptPass2_Always(bytes) == TRUE

\* `recompressedSize <= 30`
AdoptPass2(bytes) == bytes <= CeilingKB * BytesPerKB

\* Variant of ShouldCleanup: the catch block does not clean up.
ShouldCleanup_Never(path, fs) == FALSE

\* `filepath && fs.existsSync(filepath)` in the catch block
ShouldCleanup(path, fs) == path # NoPath /\ path \in fs

\* fs.unlinkSync(filepath) inside its try/catch: it removes the file, or
\* throws (file absent, or the OS refuses: ok = FALSE) and the throw is
\* logged and swallowed.
Unlink(r, ok) ==
    /\ files' = IF ok THEN files \ {filepath[r]} ELSE files
    /\ cleanupFailed' = [cleanupFailed EXCEPT
                            ![r] = ~ok \/ filepath[r] \notin files]

\* Variant of CatchBlock: the rejection is swallowed and the pipeline goes
\* on with the next operation.
CatchBlock_Swallow(r, ok) ==
    /\ failedOp' = [failedOp EXCEPT ![r] = pc[r]]
    /\ Advance(r, NextOp(pc[r]))
    /\ UNCHANGED <<outcome, files, cleanupFailed, responses>>

\* Variant of CatchBlock: the catch block answers the request with 500.
CatchBlock_Respond500(r, ok) ==
    /\ outcome' = [outcome EXCEPT ![r] = "failed"]
    /\ pc' = [pc EXCEPT ![r] = "done"]
    /\ failedOp' = [failedOp EXCEPT ![r] = pc[r]]
    /\ responses' = [responses EXCEPT ![r] = Append(@, 500)]
    /\ IF ShouldCleanup(filepath[r], files)
       THEN /\ Unlink(r, ok)
            /\ log' = [log EXCEPT ![r] = Append(@, "unlink")]
       ELSE UNCHANGED <<files, cleanupFailed, log>>

\* The catch block of processScreenshotAsync, entered by the rejection of
\* the operation the request was awaiting: log, cleanup of the file when it
\* is known and exists, log the duration.  browser.close() is not called
\* and nothing is sent to the caller.
CatchBlock(r, ok) ==
    /\ outcome' = [outcome EXCEPT ![r] = "failed"]
    /\ pc' = [pc EXCEPT ![r] = "done"]
    /\ failedOp' = [failedOp EXCEPT ![r] = pc[r]]
    /\ UNCHANGED responses
    /\ IF ShouldCleanup(filepath[r], files)
       THEN /\ Unlink(r, ok)
            /\ log' = [log EXCEPT ![r] = Append(@, "unlink")]
       ELSE UNCHANGED <<files, cleanupFailed, log>>

\* What the success branch of an action leaves alone of the variables the
\* catch block writes.
NoCatch == UNCHANGED <<outcome, cleanupFailed, responses, failedOp>>

\* Variant of IndicatorAborts: the loop body has no try/catch.
IndicatorAborts_OnTimeout(gone) == ~gone

\* The empty catch of the loop over loadingSelectors: a timeout of
\* page.waitForFunction never leaves the loop.
IndicatorAborts(gone) == FALSE

\* Variant of RemoveAborts: the removal has no try/catch.
RemoveAborts_OnThrow(result) == result = "throw"

\* The try/catch around supabase.storage.remove; its returned error is not
\* read.
RemoveAborts(result) == FALSE

\* Variant of UploadThrows: uploadError is not checked.
UploadThrows_Never(ok) == FALSE

\* `if (uploadError) throw uploadError`
UploadThrows(ok) == ~ok

\* Variant of UpsertObject: upsert: false, an existing object is kept.
UpsertObject_KeepExisting(store, key, r) ==
    IF store[key] = NoObject THEN [store EXCEPT ![key] = r] ELSE store

\* upload(filePath, buffer, { upsert: true }): the object at the key is
\* the uploaded payload, whatever was there.
UpsertObject(store, key, r) == [store EXCEPT ![key] = r]

\* The requests for project id whose publish has started and is over.
Published(id) ==
    {q \in Reqs : pid[q] = id /\ pc[q] = "done" /\ "remove" \in Range(log[q])}

\* -------------------------------------------------------- HTTP handler

HandleRequest(r, body) ==
    /\ pc[r] = "idle"
    /\ \A q \in Reqs : q < r => pc[q] # "idle"
    /\ pid' = [pid EXCEPT ![r] = body]
    /\ IF IsMissing(body)
       THEN /\ responses' = [responses EXCEPT ![r] = Append(@, 400)]
            /\ log' = [log EXCEPT ![r] = Append(@, "respond400")]
            /\ pc' = [pc EXCEPT ![r] = "done"]
            /\ outcome' = [outcome EXCEPT ![r] = "rejected"]
       ELSE /\ responses' = [responses EXCEPT ![r] = Append(@, 200)]
            /\ log' = [log EXCEPT ![r] = @ \o AcceptedSteps]
            /\ pc' = [pc EXCEPT ![r] = "probe"]
            /\ UNCHANGED outcome
    /\ UNCHANGED <<probeResult, browserVars, filepath, cleanupFailed,
                   imageVars, now, files, storeVars, histVars>>

\* --------------------------------------------- processScreenshotAsync

Probe(r, status) ==
    /\ pc[r] = "probe"
    /\ probeResult' = [probeResult EXCEPT ![r] = <<status>>]
    /\ IF ResponseOk(status)
       THEN /\ Advance(r, NextOp("probe"))
            /\ UNCHANGED outcome
       ELSE /\ pc' = [pc EXCEPT ![r] = "done"]
            /\ outcome' = [outcome EXCEPT ![r] = "unavailable"]
            /\ UNCHANGED log
    /\ UNCHANGED <<pid, responses, browserVars, filepath, cleanupFailed,
                   imageVars, now, files, storeVars, histVars>>

Launch(r, ok) ==
    /\ pc[r] = "launch"
    /\ IF ok
       THEN /\ browser' = [browser EXCEPT ![r] = "open"]
            /\ Advance(r, NextOp("launch"))
            /\ NoCatch /\ UNCHANGED files
       ELSE /\ CatchBlock(r, TRUE)
            /\ UNCHANGED browser
    /\ UNCHANGED <<pid, probeResult, settleIdx, filepath, imageVars, now,
                   storeVars, uploadResult, settleTimedOut, predecessors>>

\* browser.newPage() and page.setViewport()
PageSetup(r, ok) ==
    /\ pc[r] \in {"newPage", "setViewport"}
    /\ IF ok
       THEN /\ Advance(r, NextOp(pc[r]))
            /\ NoCatch /\ UNCHANGED files
       ELSE CatchBlock(r, TRUE)
    /\ UNCHANGED <<pid, probeResult, browserVars, filepath, imageVars, now,
                   storeVars, uploadResult, settleTimedOut, predecessors>>

\* page.goto(..., { waitUntil: 'networkidle0', timeout: 30000 })
Goto(r, ok) ==
    /\ pc[r] = "goto"
    /\ IF ok
       THEN /\ Advance(r, NextOp("goto"))
            /\ settleIdx' = [settleIdx EXCEPT ![r] = 1]
            /\ NoCatch /\ UNCHANGED files
       ELSE /\ CatchBlock(r, TRUE)
            /\ UNCHANGED settleIdx
    /\ UNCHANGED <<pid, probeResult, browser, filepath, imageVars, now,
                   storeVars, uploadResult, settleTimedOut, predecessors>>

\* One page.waitForFunction of the loop over loadingSelectors; a timeout
\* (gone = FALSE) is caught by the empty catch of the loop body.
WaitForIndicator(r, gone) ==
    /\ pc[r] = "settle"
    /\ IF IndicatorAborts(gone)
       THEN /\ CatchBlock(r, TRUE)
            /\ UNCHANGED <<settleIdx, settleTimedOut>>
       ELSE /\ settleTimedOut' = [settleTimedOut EXCEPT ![r] = @ \/ ~gone]
            /\ IF settleIdx[r] < NumSelectors
               THEN /\ settleIdx' = [settleIdx EXCEPT ![r] = @ + 1]
                    /\ UNCHANGED <<pc, log>>
               ELSE /\ Advance(r, NextOp("settle"))
                    /\ UNCHANGED settleIdx
            /\ NoCatch /\ UNCHANGED files
    /\ UNCHANGED <<pid, probeResult, browser, filepath, imageVars, now,
                   storeVars, uploadResult, predecessors>>

\* page.waitForTimeout(2000) returns: the settle loop is over; the file
\* name is built from the id and Date.now() and page.screenshot is started.
Quiet(r) ==
    /\ pc[r] = "quiet"
    /\ filepath' = [filepath EXCEPT ![r] = <<pid[r], now>>]
    /\ settleTimedOut' = [settleTimedOut EXCEPT ![r] = FALSE]
    /\ Advance(r, NextOp("quiet"))
    /\ NoCatch
    /\ UNCHANGED <<pid, probeResult, browserVars, imageVars, now, files,
                   storeVars, uploadResult, predecessors>>

\* page.screenshot({ path: filepath }) and fs.statSync(filepath)
Screenshot(r, ok, okUnlink) ==
    /\ pc[r] = "screenshot"
    /\ IF ok
       THEN /\ files' = files \cup {filepath[r]}
            /\ Advance(r, NextOp("screenshot"))
            /\ NoCatch
       ELSE CatchBlock(r, okUnlink)
    /\ UNCHANGED <<pid, probeResult, browserVars, filepath, imageVars, now,
                   storeVars, uploadResult, settleTimedOut, predecessors>>

\* browser.close()
Close(r, ok, okUnlink) ==
    /\ pc[r] = "close"
    /\ IF ok
       THEN /\ browser' = [browser EXCEPT ![r] = "closed"]
            /\ Advance(r, NextOp("close"))
            /\ NoCatch /\ UNCHANGED files
       ELSE /\ CatchBlock(r, okUnlink)
            /\ UNCHANGED browser
    /\ UNCHANGED <<pid, probeResult, settleIdx, filepath, imageVars, now,
                   storeVars, uploadResult, settleTimedOut, predecessors>>

\* ----------------------------------------------- processAndUploadImage

\* Pass 1: sharp(imagePath).jpeg(q40).resize(800).toBuffer(), statSync.
\* It throws when the file is gone or the encoder fails.  Without Pass 2
\* the removal of the stored object is started.
Pass1(r, ok, bytes, okUnlink) ==
    /\ pc[r] = "pass1"
    /\ IF ok /\ filepath[r] \in files
       THEN /\ pass1Size' = [pass1Size EXCEPT ![r] = bytes]
            /\ finalSize' = [finalSize EXCEPT ![r] = bytes]
            /\ IF NeedsPass2(bytes)
               THEN /\ Advance(r, NextOp("pass1"))
                    /\ UNCHANGED predecessors
               ELSE /\ Advance(r, NextOp("pass2"))
                    /\ predecessors' =
                          [predecessors EXCEPT ![r] = Published(pid[r])]
            /\ NoCatch /\ UNCHANGED files
       ELSE /\ CatchBlock(r, okUnlink)
            /\ UNCHANGED <<pass1Size, finalSize, predecessors>>
    /\ UNCHANGED <<pid, probeResult, browserVars, filepath, pass2Size,
                   publicUrl, now, storeVars, uploadResult, settleTimedOut>>

\* Pass 2: sharp(processedImageBuffer).jpeg(q20).resize(600).toBuffer()
Pass2(r, ok, bytes, okUnlink) ==
    /\ pc[r] = "pass2"
    /\ IF ok
       THEN /\ pass2Size' = [pass2Size EXCEPT ![r] = bytes]
            /\ finalSize' = [finalSize EXCEPT
                                ![r] = IF AdoptPass2(bytes) THEN bytes ELSE @]
            /\ Advance(r, NextOp("pass2"))
            /\ predecessors' = [predecessors EXCEPT ![r] = Published(pid[r])]
            /\ NoCatch /\ UNCHANGED files
       ELSE /\ CatchBlock(r, okUnlink)
            /\ UNCHANGED <<pass2Size, finalSize, predecessors>>
    /\ UNCHANGED <<pid, probeResult, browserVars, filepath, pass1Size,
                   publicUrl, now, storeVars, uploadResult, settleTimedOut>>

\* supabase.storage.remove([filePath]): its returned error is not read and
\* a throw is caught; either way the upload is started next.
Remove(r, result, okUnlink) ==
    /\ pc[r] = "remove"
    /\ IF RemoveAborts(result)
       THEN /\ CatchBlock(r, okUnlink)
            /\ UNCHANGED storage
       ELSE /\ storage' = IF result = "ok"
                          THEN [storage EXCEPT ![pid[r]] = NoObject]
                          ELSE storage
            /\ Advance(r, NextOp("remove"))
            /\ NoCatch /\ UNCHANGED files
    /\ UNCHANGED <<pid, probeResult, browserVars, filepath, imageVars, now,
                   record, uploadResult, settleTimedOut, predecessors>>

\* supabase.storage.upload(filePath, buffer, { upsert: true }); on success
\* the public URL is built with Date.now() and the record update starts.
Upload(r, ok, okUnlink) ==
    /\ pc[r] = "upload"
    /\ uploadResult' = [uploadResult EXCEPT
                           ![r] = IF ok THEN "ok" ELSE "error"]
    /\ storage' = IF ok THEN UpsertObject(storage, pid[r], r) ELSE storage
    /\ IF UploadThrows(ok)
       THEN /\ CatchBlock(r, okUnlink)
            /\ UNCHANGED publicUrl
       ELSE /\ publicUrl' = [publicUrl EXCEPT ![r] = <<pid[r], now>>]
            /\ Advance(r, NextOp("upload"))
            /\ NoCatch /\ UNCHANGED files
    /\ UNCHANGED <<pid, probeResult, browserVars, filepath, pass1Size,
                   pass2Size, finalSize, now, record, settleTimedOut,
                   predecessors>>

\* supabase.from('projects').update({ screenshot: publicUrl }); on success
\* processAndUploadImage returns and the file is unlinked.
Update(r, ok, okUnlink) ==
    /\ pc[r] = "update"
    /\ IF ok
       THEN /\ record' = [record EXCEPT
                             ![pid[r]] = [url |-> publicUrl[r], by |-> r]]
            /\ Unlink(r, okUnlink)
            /\ log' = [log EXCEPT ![r] = Append(@, "unlink")]
            /\ pc' = [pc EXCEPT ![r] = "done"]
            /\ outcome' = [outcome EXCEPT ![r] = "success"]
            /\ UNCHANGED <<responses, failedOp>>
       ELSE /\ CatchBlock(r, okUnlink)
            /\ UNCHANGED record
    /\ UNCHANGED <<pid, probeResult, browserVars, filepath, imageVars, now,
                   storage, uploadResult, settleTimedOut, predecessors>>

Next ==
    \/ Tick
    \/ \E r \in Reqs, body \in Bodies : HandleRequest(r, body)
    \/ \E r \in Reqs, status \in ProbeStatuses : Probe(r, status)
    \/ \E r \in Reqs, ok \in BOOLEAN : Launch(r, ok)
    \/ \E r \in Reqs, ok \in BOOLEAN : PageSetup(r, ok)
    \/ \E r \in Reqs, ok \in BOOLEAN : Goto(r, ok)
    \/ \E r \in Reqs, gone \in BOOLEAN : WaitForIndicator(r, gone)
    \/ \E r \in Reqs : Quiet(r)
    \/ \E r \in Reqs, ok, okUnlink \in BOOLEAN : Screenshot(r, ok, okUnlink)
    \/ \E r \in Reqs, ok, okUnlink \in BOOLEAN : Close(r, ok, okUnlink)
    \/ \E r \in Reqs, ok, okUnlink \in BOOLEAN, bytes \in Sizes :
          Pass1(r, ok, bytes, okUnlink)
    \/ \E r \in Reqs, ok, okUnlink \in BOOLEAN, bytes \in Sizes :
          Pass2(r, ok, bytes, okUnlink)
    \/ \E r \in Reqs, result \in {"ok", "error", "throw"},
          okUnlink \in BOOLEAN : Remove(r, result, okUnlink)
    \/ \E r \in Reqs, ok, okUnlink \in BOOLEAN : Upload(r, ok, okUnlink)
    \/ \E r \in Reqs, ok, okUnlink \in BOOLEAN : Update(r, ok, okUnlink)

Spec == Init /\ [][Next]_vars

\* ================================================================ claims

CeilingBytes == CeilingKB * BytesPerKB

\* The operations of the background pipeline, as logged.
PipelineOps ==
    {"probe", "launch", "newPage", "setViewport", "goto", "settle", "quiet",
     "screenshot", "close", "pass1", "pass2", "remove", "upload", "update",
     "unlink"}

\* The stage each logged operation belongs to: 1 Probe, 2 Launch,
\* 3 Navigate, 4 Settle, 5 Capture, 6 Close(browser), 7 Compress,
\* 8 Publish, 9 Cleanup(file).
StageRank(op) ==
    CASE op = "probe" -> 1
      [] op \in {"launch", "newPage", "setViewport"} -> 2
      [] op = "goto" -> 3
      [] op \in {"settle", "quiet"} -> 4
      [] op = "screenshot" -> 5
      [] op = "close" -> 6
      [] op \in {"pass1", "pass2"} -> 7
      [] op \in {"remove", "upload", "update"} -> 8
      [] op = "unlink" -> 9
      [] OTHER -> 0

Started(r, op) == op \in Range(log[r])

\* page.screenshot of request r has written its file.
Wrote(r) == Started(r, "close")

\* C1: once the browser of a request has been launched, no terminal state
\* of that request leaves it unclosed.
C1_BrowserClosedOnEveryExit ==
    \A r \in Reqs : pc[r] = "done" => browser[r] # "open"

C3_DistinctTransientPaths ==
    \A r1, r2 \in Reqs :
        /\ r1 # r2
        /\ pc[r1] \notin {"idle", "done"} /\ filepath[r1] # NoPath
        /\ pc[r2] \notin {"idle", "done"} /\ filepath[r2] # NoPath
        => filepath[r1] # filepath[r2]

\* C4: when Pass 2 ran, the final payload is Pass 2's output if that is
\* smaller than Pass 1's output (even above the ceiling), else Pass 1's.
C4_Pass2AdoptedWheneverSmaller ==
    \A r \in Reqs :
        pass2Size[r] # NoSize
        => finalSize[r] = IF pass2Size[r] < pass1Size[r]
                          THEN pass2Size[r] ELSE pass1Size[r]

\* C5: in the log of every request, every pipeline operation comes after
\* the 200 acknowledgement.
C5_AckBeforePipeline ==
    \A r \in Reqs : \A i \in DOMAIN log[r] :
        log[r][i] \in PipelineOps
        => /\ \E j \in 1..(i - 1) : log[r][j] = "respond200"
           /\ responses[r] = <<200>>

C5_Witness ==
    \E r \in Reqs : pid[r] \in Ids /\ browser[r] = "open"

\* C6: a request without project_id gets 400 and none of its pipeline
\* operations ever starts.
C6_MissingIdRejected ==
    \A r \in Reqs :
        pc[r] # "idle" /\ pid[r] = NoId
        => /\ responses[r] = <<400>>
           /\ Range(log[r]) \cap PipelineOps = {}
           /\ pc[r] = "done"
           /\ browser[r] = "none" /\ filepath[r] = NoPath

C6_Witness ==
    \E r, q \in Reqs :
        /\ pid[r] = NoId /\ pc[r] = "done"
        /\ q > r /\ outcome[q] = "success"

\* C7: after a probe that returned a non-success status or was rejected,
\* the request is over: nothing but the probe was started, no browser, no
\* file, and neither the stored object nor the record comes from it.
C7_ProbeFailureEndsRequest ==
    \A r \in Reqs :
        /\ probeResult[r] # <<>>
        /\ probeResult[r][1] \notin 200..299
        => /\ pc[r] = "done"
           /\ log[r] = <<"respond200", "probe">>
           /\ browser[r] = "none" /\ filepath[r] = NoPath
           /\ storage[pid[r]] # r /\ record[pid[r]].by # r

C7_Witness ==
    \E r \in Reqs :
        /\ probeResult[r] = <<503>>
        /\ storage[pid[r]] # NoObject /\ record[pid[r]] # NoRecord

\* C8: the operations a request starts follow the stage order Probe,
\* Launch, Navigate, Settle, Capture, Close, Compress, Publish, Cleanup,
\* none is started twice, and the one in progress is the last one started.
C8_StagesInOrder ==
    \A r \in Reqs :
        /\ \A i \in 1..(Len(log[r]) - 1) :
              log[r][i] \in PipelineOps
              => /\ log[r][i + 1] \in PipelineOps
                 /\ StageRank(log[r][i]) <= StageRank(log[r][i + 1])
        /\ Cardinality(Range(log[r])) = Len(log[r])
        /\ pc[r] \notin {"idle", "done"} => log[r][Len(log[r])] = pc[r]

C8_Witness ==
    \E r \in Reqs :
        /\ outcome[r] = "success"
        /\ {StageRank(op) : op \in Range(log[r]) \cap PipelineOps} = 1..9

\* C9: the final payload is never larger than Pass 1's output.
C9_FinalNotLargerThanPass1 ==
    \A r \in Reqs : finalSize[r] # NoSize => finalSize[r] <= pass1Size[r]

C9_Witness ==
    \E r \in Reqs :
        /\ pass2Size[r] > pass1Size[r] /\ pass1Size[r] # NoSize
        /\ storage[pid[r]] = r

\* C10: Pass 2 ran exactly when Pass 1's output exceeded the ceiling, and
\* without Pass 2 the payload is Pass 1's output.
C10_Pass2OnlyAboveCeiling ==
    \A r \in Reqs :
        pass1Size[r] # NoSize
        => /\ Started(r, "pass2") <=> pass1Size[r] > CeilingBytes
           /\ pass1Size[r] <= CeilingBytes
              => pass2Size[r] = NoSize /\ finalSize[r] = pass1Size[r]

C10_Witness ==
    \E r \in Reqs :
        /\ pass1Size[r] = CeilingBytes
        /\ outcome[r] = "success" /\ storage[pid[r]] = r

\* The requests that have started a publish (the removal) for project id.
Publishers(id) == {r \in Reqs : pid[r] = id /\ Started(r, "remove")}

\* C11: when a publish for a project succeeds after an earlier successful
\* publish for the same project had ended, and no other publish for the
\* project started since, the object at the key is the later payload and
\* the record holds the URL the later publish wrote.
C11_SecondPublishWins ==
    \A r1, r2 \in Reqs :
        /\ r1 # r2 /\ pid[r1] = pid[r2]
        /\ outcome[r1] = "success" /\ outcome[r2] = "success"
        /\ r1 \in predecessors[r2]
        /\ Publishers(pid[r2]) \ {r2} \subseteq predecessors[r2]
        => /\ storage[pid[r2]] = r2
           /\ record[pid[r2]] = [url |-> publicUrl[r2], by |-> r2]

C11_Witness ==
    \E r1, r2 \in Reqs :
        /\ r1 # r2 /\ pid[r1] = pid[r2]
        /\ outcome[r1] = "success" /\ outcome[r2] = "success"
        /\ r1 \in predecessors[r2]
        /\ storage[pid[r2]] = r2 /\ record[pid[r2]].by = r2
        /\ finalSize[r1] # finalSize[r2]

\* C12: the step that ends the removal of the existing object starts the
\* upload, whatever the removal returned or threw, in particular when it
\* left the existing object in place.
C12_DeleteFailureDoesNotAbort ==
    [][\A r \in Reqs :
          pc[r] = "remove" /\ pc'[r] # "remove"
          => /\ pc'[r] = "upload"
             /\ log'[r] = Append(log[r], "upload")
             /\ outcome'[r] = outcome[r]]_vars

\* The removal of r ran after q's publish had ended and q's object is
\* still there while r's upload is in progress: the removal failed.
C12_Witness ==
    \E r, q \in Reqs :
        /\ pc[r] = "upload"
        /\ q \in predecessors[r]
        /\ Publishers(pid[r]) \ {r} \subseteq predecessors[r]
        /\ storage[pid[r]] = q

\* C13: the record update of a request starts only after its upload
\* succeeded; the step in which the upload fails ends the request as
\* failed, leaves the record as it was, starts no update, and the
\* transient file is gone unless its unlink threw.
C13_UpdateOnlyAfterUpload ==
    [][\A r \in Reqs :
          /\ "update" \in Range(log'[r]) => uploadResult'[r] = "ok"
          /\ pc[r] = "upload" /\ uploadResult'[r] = "error"
             => /\ pc'[r] = "done" /\ outcome'[r] = "failed"
                /\ record' = record
                /\ "update" \notin Range(log'[r])
                /\ \/ filepath[r] \notin files'
                   \/ cleanupFailed'[r]
                      /\ log'[r] = Append(log[r], "unlink")]_vars

C13_Witness ==
    \E r \in Reqs :
        /\ uploadResult[r] = "error" /\ pc[r] = "done"
        /\ Started(r, "unlink") /\ filepath[r] \notin files
        /\ record[pid[r]] # NoRecord /\ record[pid[r]].by # r

\* The operations of the stages launch, navigate, capture, compress and
\* publish whose rejection is a failure of the stage.
AbortingOps ==
    {"launch", "newPage", "setViewport", "goto", "screenshot", "pass1",
     "pass2", "upload", "update"}

\* C14: after the rejection of an operation of launch, navigate, capture,
\* compress or publish the request is over and nothing but the unlink of
\* the file was started after the failing operation; after a failure
\* before the publish no upload or update was started and neither the
\* stored object nor the record comes from the request.
C14_FailureAbortsRemainingStages ==
    \A r \in Reqs :
        failedOp[r] \in AbortingOps
        => /\ pc[r] = "done" /\ outcome[r] = "failed"
           /\ LET n == Len(log[r])
              IN  \/ log[r][n] = failedOp[r]
                  \/ log[r][n] = "unlink" /\ log[r][n - 1] = failedOp[r]
           /\ failedOp[r] \notin {"upload", "update"}
              => /\ ~Started(r, "upload") /\ ~Started(r, "update")
                 /\ storage[pid[r]] # r /\ record[pid[r]].by # r

C14_Witness ==
    \E r1, r2 \in Reqs :
        /\ failedOp[r1] = "goto"
        /\ failedOp[r2] = "pass2" /\ Started(r2, "unlink")

\* C15: a rejected browser.close() after a successful capture does not
\* fail the request, and the compression is started.
C15_CloseFailureNotPropagated ==
    \A r \in Reqs :
        failedOp[r] = "close"
        => outcome[r] # "failed" /\ Started(r, "pass1")

\* C16: a step of the settle loop goes to the next of the six checks, or
\* after the sixth to the quiet period, whether or not the check timed
\* out; the end of the quiet period starts the capture.
C16_SettleIsBestEffort ==
    [][\A r \in Reqs :
          /\ pc[r] = "settle"
             /\ (pc'[r] # "settle" \/ settleIdx'[r] # settleIdx[r])
             => IF settleIdx[r] < 6
                THEN pc'[r] = "settle" /\ settleIdx'[r] = settleIdx[r] + 1
                ELSE pc'[r] = "quiet" /\ settleIdx[r] = 6
          /\ pc[r] = "quiet" /\ pc'[r] # "quiet"
             => /\ pc'[r] = "screenshot"
                /\ log'[r] = Append(log[r], "screenshot")]_vars

C16_Witness ==
    \E r \in Reqs :
        pc[r] = "quiet" /\ settleIdx[r] = 6 /\ settleTimedOut[r]

\* C17: when two or more requests have published for the same project and
\* all of them succeeded, however their steps interleaved, the object at
\* the key is the payload of one of them and the record holds the URL,
\* for that key, that one of them wrote.
C17_ConcurrentPublishesLeaveOneObject ==
    \A i \in Ids :
        /\ Cardinality(Publishers(i)) >= 2
        /\ \A r \in Publishers(i) : outcome[r] = "success"
        => /\ storage[i] \in Publishers(i)
           /\ record[i].by \in Publishers(i)
           /\ record[i].url = publicUrl[record[i].by]
           /\ record[i].url[1] = i

\* Both succeeded, interleaved: the object is one request's payload, the
\* record the other's URL.
C17_Witness ==
    \E r1, r2 \in Reqs :
        /\ r1 # r2 /\ pid[r1] = pid[r2]
        /\ outcome[r1] = "success" /\ outcome[r2] = "success"
        /\ storage[pid[r1]] = r1 /\ record[pid[r1]].by = r2

\* C18: a request that has been handled has exactly one response, 400
\* without project_id and 200 with it, whatever its pipeline did since.
C18_ExactlyOneResponse ==
    \A r \in Reqs :
        responses[r] = IF pc[r] = "idle" THEN <<>>
                       ELSE IF pid[r] = NoId THEN <<400>> ELSE <<200>>

C18_Witness ==
    \E r1, r2 \in Reqs :
        /\ outcome[r1] = "failed" /\ responses[r1] = <<200>>
        /\ outcome[r2] = "rejected" /\ responses[r2] = <<400>>

\* C19: a payload handed to the upload exceeds the ceiling only if Pass 1's
\* output and Pass 2's output both exceed it.
C19_OverCeilingOnlyIfBothPassesOver ==
    \A r \in Reqs :
        Started(r, "upload") /\ finalSize[r] > CeilingBytes
        => /\ pass1Size[r] > CeilingBytes
           /\ pass2Size[r] # NoSize /\ pass2Size[r] > CeilingBytes

C19_Witness ==
    \E r \in Reqs :
        /\ outcome[r] = "success" /\ storage[pid[r]] = r
        /\ pass1Size[r] > CeilingBytes
        /\ pass2Size[r] # NoSize /\ pass2Size[r] <= CeilingBytes
        /\ finalSize[r] = pass2Size[r]

\* C20: when the upload of a request fails and an earlier publish for the
\* project had succeeded, no other publish for the project running since,
\* the object the record references is still stored.
C20_FailedPublishKeepsObject ==
    \A r \in Reqs :
        /\ uploadResult[r] = "error"
        /\ \E q \in predecessors[r] : outcome[q] = "success"
        /\ Publishers(pid[r]) \ {r} \subseteq predecessors[r]
        => /\ record[pid[r]] # NoRecord
           /\ storage[pid[r]] # NoObject

====
